---- MODULE Spec2Model ----
(***************************************************************************)
(* Model of the local-execution app of smart-home-local:                   *)
(*   src/app/crc8.ts  - table-driven CRC-8 engine                          *)
(*   src/app/app.ts   - command frame builder, hex encoder, transport      *)
(*                      command factories and HomeApp.executeHandler       *)
(*                                                                         *)
(* Uint8Array values are modelled as sequences: byte index k of the code   *)
(* is element k+1 of the sequence.  Plain JS arrays indexed from 0 (the    *)
(* CRC table) are functions on 0..n-1.  JS strings that the code indexes   *)
(* or slices are sequences of one-character strings.                       *)
(***************************************************************************)
EXTENDS Integers, Sequences, FiniteSets, Bags, TLC

VARIABLES
    \* ---- CRC8 engine and frame builder (crc8.ts, app.ts:111-140) ----
    cpc,            \* position of the running call: "idle", "table", "checksum"
    caller,         \* who called the CRC8 constructor: "none", "direct", "frame"
    ctorArgs,       \* arguments given to the running/last CRC8 constructor
    this,           \* the CRC8 object: polynomial, table, initial_value
    csTable,        \* generateTable's local array under construction
    ti,             \* generateTable's loop index i
    desiredState,   \* argument of the running generateCommandArr call
    command_buf,    \* generateCommandArr's 11-byte buffer
    c,              \* checksum's running value
    k,              \* checksum's loop index i
    frames,         \* last frame returned by generateCommandArr, by argument
    \* ---- pure calls (app.ts:27-91, 142-148) ----
    call,           \* last call of a factory / encoder: function, args, result
    \* ---- HomeApp.executeHandler (app.ts:223-268) ----
    pc,             \* handler position: "idle", "map", "await", "returned", "failed"
    request,        \* the ExecuteRequest being handled
    next,           \* index of the next element of command.devices to map
    task,           \* per device: state of the async callback's promise
    taskError,      \* per device: error the callback's promise rejected with
    deviceCommand,  \* per device: the callback's local deviceCommand
    sendPromise,    \* per device: state of the promise send returned
    sent,           \* descriptors handed to DeviceManager.send, in call order
    executeResponse,\* bag of outcomes recorded in the response builder
    response,       \* value returned by executeHandler
    failure         \* error executeHandler rejected with

crcVars == <<cpc, caller, ctorArgs, this, csTable, ti, desiredState,
             command_buf, c, k, frames>>
callVars == <<call>>
execVars == <<pc, request, next, task, taskError, deviceCommand, sendPromise, sent,
              executeResponse, response, failure>>
vars == <<crcVars, callVars, execVars>>

None == "undefined"

(***************************************************************************)
(* Bounds of the model                                                     *)
(***************************************************************************)
NumDevices == 2      \* most devices in command.devices
MaxLen == 2          \* longest byte array given to the encoders

(***************************************************************************)
(* Bitwise operators of JS on non-negative integers                        *)
(***************************************************************************)
RECURSIVE BitXor(_, _)
BitXor(a, b) ==
    IF a = 0 THEN b
    ELSE IF b = 0 THEN a
    ELSE (((a % 2) + (b % 2)) % 2) + (2 * BitXor(a \div 2, b \div 2))

RECURSIVE BitAnd(_, _)
BitAnd(a, b) ==
    IF a = 0 \/ b = 0 THEN 0
    ELSE ((a % 2) * (b % 2)) + (2 * BitAnd(a \div 2, b \div 2))

(***************************************************************************)
(* crc8.ts                                                                 *)
(***************************************************************************)
CrcPoly == [CRC8 |-> 213, CRC8_CCITT |-> 7, CRC8_DALLAS_MAXIM |-> 49,
            CRC8_SAE_J1850 |-> 29, CRC_8_WCDMA |-> 155]

\* inner loop of generateTable: the j-loop applied to curr, from step j
RECURSIVE shiftLoop(_, _, _)
shiftLoop(curr, j, polynomial) ==
    IF j < 8
    THEN shiftLoop(IF BitAnd(curr, 128) # 0
                   THEN BitXor(curr * 2, polynomial) % 256
                   ELSE (curr * 2) % 256,
                   j + 1, polynomial)
    ELSE curr

\* generateTable, as run on an object whose polynomial field is `polynomial`
generateTable(polynomial) == [i \in 0..255 |-> shiftLoop(i, 0, polynomial)]

\* the polynomial the constructor stores, given its polynomial argument
ctorPolynomial(polynomial) == CrcPoly.CRC8_DALLAS_MAXIM

\* new CRC8(polynomial, initial_value)
CRC8(polynomial, initial_value) ==
    [polynomial |-> ctorPolynomial(polynomial),
     table |-> generateTable(ctorPolynomial(polynomial)),
     initial_value |-> initial_value]

\* one iteration of checksum's loop
checksumStep(table, cc, byte) == table[BitXor(cc, byte) % 256]

\* variant: the loop stops one byte early
checksumContinues_skipsLast(i, byte_array) == i < Len(byte_array) - 1

\* the condition of checksum's loop
checksumContinues(i, byte_array) == i < Len(byte_array)

RECURSIVE checksumFrom(_, _, _, _)
checksumFrom(obj, cc, byte_array, i) ==
    IF checksumContinues(i, byte_array)
    THEN checksumFrom(obj, checksumStep(obj.table, cc, byte_array[i + 1]),
                      byte_array, i + 1)
    ELSE cc

\* CRC8.checksum
checksum(obj, byte_array) == checksumFrom(obj, obj.initial_value, byte_array, 0)

(***************************************************************************)
(* app.ts: frame builder                                                   *)
(***************************************************************************)
\* variant: the parameter byte is the literal of generateCommand (line 106)
paramByte_alwaysOn(state) == 1

\* the parameter byte written at command_buf[10]
paramByte(state) == IF state THEN 1 ELSE 0

\* command_buf of generateCommandArr after the writes of lines 112-129
commandBuf(state) == <<0, 0, 86, 116, 112, 0, 0, 0, 0, 1, paramByte(state)>>

\* initial value generateChecksum gives the engine
checksumInit == 255

\* the engine generateChecksum constructs
crc8 == CRC8(CrcPoly.CRC8_DALLAS_MAXIM, checksumInit)

\* generateChecksum
generateChecksum(data) == checksum(crc8, data)

\* the array generateCommandArr returns, given its buffer and the checksum
withChecksum(buf, cksum) == buf \o <<cksum>>

\* generateCommandArr
generateCommandArr(deviceType, state) ==
    withChecksum(commandBuf(state), generateChecksum(commandBuf(state)))

\* generateCommandBody
generateCommandBody(deviceType, command) == generateCommandArr(deviceType, command)

(***************************************************************************)
(* app.ts: toHexString                                                     *)
(***************************************************************************)
HexDigit == <<"0", "1", "2", "3", "4", "5", "6", "7",
              "8", "9", "a", "b", "c", "d", "e", "f">>

\* Number.prototype.toString(16) of a non-negative integer
RECURSIVE toString16(_)
toString16(n) ==
    IF n < 16 THEN <<HexDigit[n + 1]>>
    ELSE toString16(n \div 16) \o <<HexDigit[(n % 16) + 1]>>

\* String.prototype.slice(-2)
sliceLast2(s) == IF Len(s) <= 2 THEN s ELSE SubSeq(s, Len(s) - 1, Len(s))

\* variant: no '0' prefix and no slice
hexOfByte_unpadded(byte) == toString16(BitAnd(byte, 255))

\* the two characters the forEach callback appends for one byte
hexOfByte(byte) == sliceLast2(<<"0">> \o toString16(BitAnd(byte, 255)))

RECURSIVE toHexFrom(_, _)
toHexFrom(data, i) ==
    IF i > Len(data) THEN <<>>
    ELSE hexOfByte(data[i]) \o toHexFrom(data, i + 1)

toHexString(data) == toHexFrom(data, 1)

(***************************************************************************)
(* Step-by-step run of the CRC8 constructor and of generateCommandArr      *)
(***************************************************************************)
Polynomials == {CrcPoly.CRC8, CrcPoly.CRC8_CCITT, CrcPoly.CRC8_DALLAS_MAXIM,
                CrcPoly.CRC8_SAE_J1850, CrcPoly.CRC_8_WCDMA}
InitialValues == {0, 255}

CrcInit ==
    /\ cpc = "idle"
    /\ caller = "none"
    /\ ctorArgs = None
    /\ this = None
    /\ csTable = <<>>
    /\ ti = 0
    /\ desiredState = None
    /\ command_buf = <<>>
    /\ c = 0
    /\ k = 0
    /\ frames = [b \in BOOLEAN |-> <<>>]

\* entry of the constructor up to the first iteration of generateTable
enterConstructor(who, polynomial, initial_value) ==
    /\ caller' = who
    /\ ctorArgs' = [polynomial |-> polynomial, initial_value |-> initial_value]
    /\ this' = [initial_value |-> CrcPoly.CRC8_DALLAS_MAXIM,
                polynomial |-> ctorPolynomial(polynomial),
                table |-> None]
    /\ csTable' = <<>>
    /\ ti' = 0
    /\ cpc' = "table"

\* a caller constructs an engine: new CRC8(polynomial, initial_value)
NewCRC8(polynomial, initial_value) ==
    /\ cpc = "idle"
    /\ enterConstructor("direct", polynomial, initial_value)
    /\ UNCHANGED <<desiredState, command_buf, c, k, frames>>
    /\ UNCHANGED <<callVars, execVars>>

\* generateCommandArr up to the constructor call made by generateChecksum
GenerateCommandArr(state) ==
    /\ cpc = "idle"
    /\ desiredState' = state
    /\ command_buf' = commandBuf(state)
    /\ enterConstructor("frame", CrcPoly.CRC8_DALLAS_MAXIM, checksumInit)
    /\ UNCHANGED <<c, k, frames>>
    /\ UNCHANGED <<callVars, execVars>>

\* one iteration of generateTable's outer loop
GenerateTableStep ==
    /\ cpc = "table"
    /\ ti < 256
    /\ csTable' = [x \in 0..ti |-> IF x = ti
                                   THEN shiftLoop(ti, 0, this.polynomial)
                                   ELSE csTable[x]]
    /\ ti' = ti + 1
    /\ UNCHANGED <<cpc, caller, ctorArgs, this, desiredState, command_buf,
                   c, k, frames>>
    /\ UNCHANGED <<callVars, execVars>>

\* generateTable returns; the constructor stores the table and initial_value
ConstructorReturn ==
    /\ cpc = "table"
    /\ ~(ti < 256)
    /\ this' = [this EXCEPT !.table = csTable,
                            !.initial_value = ctorArgs.initial_value]
    /\ IF caller = "frame"
       THEN /\ cpc' = "checksum"
            /\ c' = ctorArgs.initial_value
            /\ k' = 0
       ELSE /\ cpc' = "idle"
            /\ UNCHANGED <<c, k>>
    /\ UNCHANGED <<caller, ctorArgs, csTable, ti, desiredState, command_buf,
                   frames>>
    /\ UNCHANGED <<callVars, execVars>>

\* one iteration of checksum's loop over command_buf
ChecksumStep ==
    /\ cpc = "checksum"
    /\ checksumContinues(k, command_buf)
    /\ c' = checksumStep(this.table, c, command_buf[k + 1])
    /\ k' = k + 1
    /\ UNCHANGED <<cpc, caller, ctorArgs, this, csTable, ti, desiredState,
                   command_buf, frames>>
    /\ UNCHANGED <<callVars, execVars>>

\* checksum returns; generateCommandArr appends it and returns the frame
GenerateCommandArrReturn ==
    /\ cpc = "checksum"
    /\ ~checksumContinues(k, command_buf)
    /\ frames' = [frames EXCEPT ![desiredState] = withChecksum(command_buf, c)]
    /\ cpc' = "idle"
    /\ UNCHANGED <<caller, ctorArgs, this, csTable, ti, desiredState,
                   command_buf, c, k>>
    /\ UNCHANGED <<callVars, execVars>>

(***************************************************************************)
(* Payload cipher (./xxtea, not among the sources): a keyed transformation *)
(* of the whole byte sequence whose output is padded to the block size and *)
(* carries a length block, so its length differs from the input's.         *)
(***************************************************************************)
BlockSize == 4
KeySize == 16

\* the key: the secret's character codes, zero-padded or cut to KeySize
fixKey(secret) ==
    [j \in 1..KeySize |-> IF j <= Len(secret) THEN secret[j] ELSE 0]

\* data zero-padded to whole blocks, followed by a block holding its length
padWithLength(data) ==
    LET n == Len(data)
        m == ((n + BlockSize - 1) \div BlockSize) * BlockSize
    IN [j \in 1..(m + BlockSize) |->
           IF j <= n THEN data[j]
           ELSE IF j = m + 1 THEN n % 256
           ELSE 0]

encrypt(data, secret) ==
    IF Len(data) = 0 THEN <<>>
    ELSE LET padded == padWithLength(data)
             key == fixKey(secret)
         IN [j \in 1..Len(padded) |->
                (padded[j] + key[((j - 1) % KeySize) + 1] + j) % 256]

(***************************************************************************)
(* app.ts: transport command factories                                     *)
(***************************************************************************)
ControlKind == [UDP |-> "UDP", TCP |-> "TCP", HTTP |-> "HTTP"]

Return(value) == [threw |-> FALSE, value |-> value]
Throw(message) == [threw |-> TRUE, message |-> message]

\* new smarthome.DataFlow.HttpRequestData()
HttpRequestData ==
    [kind |-> "HttpRequestData", method |-> None, path |-> None,
     data |-> None, dataType |-> None,
     requestId |-> None, deviceId |-> None, port |-> None]

\* new smarthome.DataFlow.TcpRequestData()
TcpRequestData ==
    [kind |-> "TcpRequestData", operation |-> None, data |-> None,
     bytesToRead |-> None,
     requestId |-> None, deviceId |-> None, port |-> None]

makeTcpRead ==
    [TcpRequestData EXCEPT !.operation = "READ", !.bytesToRead = 1024]

makeHttpGet(path) ==
    [HttpRequestData EXCEPT !.method = "GET", !.path = path]

makeHttpPost(data, secret, path) ==
    [HttpRequestData EXCEPT !.method = "POST",
                            !.data = toHexString(encrypt(data, secret)),
                            !.dataType = "application/octet-stream",
                            !.path = path]

\* variant: the switch also sends TCP through the HTTP case
sendSupported_withTcp(protocol) ==
    protocol = ControlKind.HTTP \/ protocol = ControlKind.TCP

\* the switch of makeSendCommand: does the protocol have a case?
sendSupported(protocol) == protocol = ControlKind.HTTP

makeSendCommand(protocol, data, secret, path) ==
    IF sendSupported(protocol)
    THEN Return(makeHttpPost(data, secret, path))
    ELSE Throw("Unsupported protocol for send: " \o protocol)

makeReceiveCommand(protocol, path) ==
    IF protocol = ControlKind.TCP THEN Return(makeTcpRead)
    ELSE IF protocol = ControlKind.HTTP THEN Return(makeHttpGet(path))
    ELSE Throw("Unsupported protocol for receive: " \o protocol)

(***************************************************************************)
(* Calls of the factories and of the encoder on inputs from small sets     *)
(***************************************************************************)
Protocols == {"HTTP", "TCP", "UDP", "BLE"}
Paths == {None, "/uricommand", "/status"}
\* the secret of executeHandler, '5674567400', and a one-character secret
HandlerSecret == <<53, 54, 55, 52, 53, 54, 55, 52, 48, 48>>
Secrets == {HandlerSecret, <<107>>}
ByteSamples == {0, 7, 15, 16, 171, 255}
ExampleBytes == <<0, 255, 7>>

RECURSIVE SeqsUpTo(_, _)
SeqsUpTo(S, n) ==
    IF n = 0 THEN {<<>>}
    ELSE LET shorter == SeqsUpTo(S, n - 1)
         IN shorter \cup {Append(q, x) : q \in shorter, x \in S}

ByteArrays ==
    SeqsUpTo(ByteSamples, MaxLen)
        \cup {ExampleBytes}
        \cup {generateCommandArr("deviceType", b) : b \in BOOLEAN}

CallInit == call = [fn |-> None]

CallMakeSendCommand(protocol, data, secret, path) ==
    /\ call.fn = None
    /\ call' = [fn |-> "makeSendCommand",
                args |-> [protocol |-> protocol, data |-> data,
                          secret |-> secret, path |-> path],
                result |-> makeSendCommand(protocol, data, secret, path)]
    /\ UNCHANGED <<crcVars, execVars>>

CallMakeReceiveCommand(protocol, path) ==
    /\ call.fn = None
    /\ call' = [fn |-> "makeReceiveCommand",
                args |-> [protocol |-> protocol, path |-> path],
                result |-> makeReceiveCommand(protocol, path)]
    /\ UNCHANGED <<crcVars, execVars>>

CallToHexString(data) ==
    /\ call.fn = None
    /\ call' = [fn |-> "toHexString",
                args |-> [data |-> data],
                result |-> toHexString(data)]
    /\ UNCHANGED <<crcVars, execVars>>

(***************************************************************************)
(* HomeApp.executeHandler                                                  *)
(***************************************************************************)
Ports == {80, 8080}
RequestIds == {"req-1"}
ErrorCodes == {"DEVICE_OFFLINE", "TIMEOUT"}

\* the id of the d-th element of command.devices (ids are distinct)
idOf(d) == "dev-" \o ToString(d)

CustomData == [control_protocol : Protocols, port : Ports]

\* the ExecuteRequests: one command, one execution, n target devices
Requests ==
    UNION {[requestId : RequestIds,
            params : [on : BOOLEAN],
            devices : {[d \in 1..n |-> [id |-> idOf(d), customData |-> cd[d]]] :
                          cd \in [1..n -> CustomData]}] :
           n \in 0..NumDevices}

ExecInit ==
    /\ pc = "idle"
    /\ request = None
    /\ next = 1
    /\ task = <<>>
    /\ taskError = <<>>
    /\ deviceCommand = <<>>
    /\ sendPromise = <<>>
    /\ sent = <<>>
    /\ executeResponse = EmptyBag
    /\ response = None
    /\ failure = None

\* variant: the callback does not set deviceId
addressed_noDeviceId(cmd, requestId, device) ==
    [cmd EXCEPT !.requestId = requestId,
                !.port = device.customData.port]

\* lines 245-247: the fields the callback sets on the built command
addressed(cmd, requestId, device) ==
    [cmd EXCEPT !.requestId = requestId,
                !.deviceId = device.id,
                !.port = device.customData.port]

\* what DeviceManager.send resolves with for a command
sendResult(cmd) == [deviceId |-> cmd.deviceId]

\* lines 255-259: the outcome setSuccessState records
successOutcome(result, params) ==
    [deviceId |-> result.deviceId, status |-> "SUCCESS",
     state |-> [on |-> params.on, online |-> TRUE]]

\* variant: the catch reads a field the device does not have
errorOutcome_wrongKey(device, e) ==
    [deviceId |-> None, status |-> "ERROR", errorCode |-> e.errorCode]

\* line 261: the outcome setErrorState records
errorOutcome(device, e) ==
    [deviceId |-> device.id, status |-> "ERROR", errorCode |-> e.errorCode]

\* lines 226-235: the handler is invoked with a request
ExecuteStart(req) ==
    /\ pc = "idle"
    /\ request' = req
    /\ pc' = "map"
    /\ next' = 1
    /\ task' = [d \in 1..Len(req.devices) |-> "notRun"]
    /\ taskError' = [d \in 1..Len(req.devices) |-> None]
    /\ deviceCommand' = [d \in 1..Len(req.devices) |-> None]
    /\ sendPromise' = [d \in 1..Len(req.devices) |-> "none"]
    /\ executeResponse' = EmptyBag
    /\ UNCHANGED <<sent, response, failure>>
    /\ UNCHANGED <<crcVars, callVars>>

\* lines 237-253: map runs the callback of the next device up to its await,
\* or up to the exception that rejects the callback's promise
MapStep ==
    /\ pc = "map"
    /\ next <= Len(request.devices)
    /\ LET device == request.devices[next]
           customData == device.customData
           data == generateCommandBody("deviceType", request.params.on)
           made == makeSendCommand(customData.control_protocol, data,
                                   HandlerSecret, "/uricommand")
       IN IF made.threw
          THEN /\ task' = [task EXCEPT ![next] = "rejected"]
               /\ taskError' = [taskError EXCEPT ![next] = made.message]
               /\ UNCHANGED <<deviceCommand, sendPromise, sent>>
          ELSE LET cmd == addressed(made.value, request.requestId, device)
               IN /\ deviceCommand' = [deviceCommand EXCEPT ![next] = cmd]
                  /\ sent' = Append(sent, cmd)
                  /\ sendPromise' = [sendPromise EXCEPT ![next] = "pending"]
                  /\ task' = [task EXCEPT ![next] = "sending"]
                  /\ UNCHANGED taskError
    /\ next' = next + 1
    /\ UNCHANGED <<pc, request, executeResponse, response, failure>>
    /\ UNCHANGED <<crcVars, callVars>>

\* line 237: map has returned; the handler awaits Promise.all
PromiseAll ==
    /\ pc = "map"
    /\ ~(next <= Len(request.devices))
    /\ pc' = "await"
    /\ UNCHANGED <<request, next, task, taskError, deviceCommand, sendPromise, sent,
                   executeResponse, response, failure>>
    /\ UNCHANGED <<crcVars, callVars>>

\* lines 252-259: the send of device d resolves and its callback resumes
SendResolve(d) ==
    /\ pc \in {"await", "failed"}
    /\ task[d] = "sending"
    /\ executeResponse' = executeResponse (+)
           SetToBag({successOutcome(sendResult(deviceCommand[d]),
                                    request.params)})
    /\ task' = [task EXCEPT ![d] = "fulfilled"]
    /\ sendPromise' = [sendPromise EXCEPT ![d] = "resolved"]
    /\ UNCHANGED <<pc, request, next, taskError, deviceCommand, sent,
                   response, failure>>
    /\ UNCHANGED <<crcVars, callVars>>

\* lines 260-262: the send of device d rejects with e and the catch runs
SendReject(d, e) ==
    /\ pc \in {"await", "failed"}
    /\ task[d] = "sending"
    /\ executeResponse' = executeResponse (+)
           SetToBag({errorOutcome(request.devices[d], e)})
    /\ task' = [task EXCEPT ![d] = "fulfilled"]
    /\ sendPromise' = [sendPromise EXCEPT ![d] = "rejected"]
    /\ UNCHANGED <<pc, request, next, taskError, deviceCommand, sent,
                   response, failure>>
    /\ UNCHANGED <<crcVars, callVars>>

\* has Promise.all settled, and how
allFulfilled == \A d \in DOMAIN task : task[d] = "fulfilled"
someRejected == \E d \in DOMAIN task : task[d] = "rejected"
firstRejected == CHOOSE d \in DOMAIN task :
                    /\ task[d] = "rejected"
                    /\ \A e \in DOMAIN task : task[e] = "rejected" => d <= e

\* lines 264-267: every promise fulfilled; the handler builds the response
HandlerReturn ==
    /\ pc = "await"
    /\ allFulfilled
    /\ response' = executeResponse
    /\ pc' = "returned"
    /\ UNCHANGED <<request, next, task, taskError, deviceCommand, sendPromise, sent,
                   executeResponse, failure>>
    /\ UNCHANGED <<crcVars, callVars>>

\* line 237: Promise.all rejects with the first rejection; the await throws
HandlerFail ==
    /\ pc = "await"
    /\ someRejected
    /\ failure' = taskError[firstRejected]
    /\ pc' = "failed"
    /\ UNCHANGED <<request, next, task, taskError, deviceCommand, sendPromise, sent,
                   executeResponse, response>>
    /\ UNCHANGED <<crcVars, callVars>>

(***************************************************************************)
(* Specifications                                                          *)
(***************************************************************************)
Init == CrcInit /\ CallInit /\ ExecInit

\* executeHandler
Next ==
    \/ \E req \in Requests : ExecuteStart(req)
    \/ MapStep
    \/ PromiseAll
    \/ \E d \in DOMAIN task : SendResolve(d)
    \/ \E d \in DOMAIN task : \E code \in ErrorCodes :
           SendReject(d, [errorCode |-> code])
    \/ HandlerReturn
    \/ HandlerFail

Spec == Init /\ [][Next]_vars

\* CRC8 engine and frame builder
NextCrc ==
    \/ \E p \in Polynomials : \E iv \in InitialValues : NewCRC8(p, iv)
    \/ \E b \in BOOLEAN : GenerateCommandArr(b)
    \/ GenerateTableStep
    \/ ConstructorReturn
    \/ ChecksumStep
    \/ GenerateCommandArrReturn

SpecCrc == Init /\ [][NextCrc]_vars

\* factories and encoder
NextCall ==
    \/ \E protocol \in Protocols : \E data \in ByteArrays :
       \E secret \in Secrets : \E path \in Paths :
           CallMakeSendCommand(protocol, data, secret, path)
    \/ \E protocol \in Protocols : \E path \in Paths :
           CallMakeReceiveCommand(protocol, path)
    \/ \E data \in ByteArrays : CallToHexString(data)

SpecCall == Init /\ [][NextCall]_vars

(***************************************************************************)
(* Properties                                                              *)
(***************************************************************************)
N == Len(request.devices)
handlerDone == pc \in {"returned", "failed"}

\* number of outcomes a bag of outcomes holds for a device id and a status
outcomeCount(b, id, status) ==
    LET S == {o \in BagToSet(b) : o.deviceId = id /\ o.status = status}
    IN BagCardinality([o \in S |-> b[o]])

rejectedSends == {d \in DOMAIN sendPromise : sendPromise[d] = "rejected"}
resolvedSends == {d \in DOMAIN sendPromise : sendPromise[d] = "resolved"}

\* C1: when all N devices of a batch were sent to, K sends failed and N-K
\* succeeded, the returned response holds exactly N outcomes, one per
\* device and under that device's id: an error outcome for each of the K
\* failed sends and a success outcome for each of the other N-K.
C1_OneOutcomePerDevice ==
    (pc = "returned" /\ Len(sent) = N) =>
        /\ BagCardinality(response) = N
        /\ \A d \in 1..N :
              /\ outcomeCount(response, idOf(d), "ERROR")
                    = (IF d \in rejectedSends THEN 1 ELSE 0)
              /\ outcomeCount(response, idOf(d), "SUCCESS")
                    = (IF d \in resolvedSends THEN 1 ELSE 0)
        /\ Cardinality(rejectedSends) + Cardinality(resolvedSends) = N

C1_Witness ==
    /\ pc = "returned"
    /\ N >= 2
    /\ Len(sent) = N
    /\ rejectedSends # {}
    /\ resolvedSends # {}

\* C2: a device whose transport tag is unsupported never makes
\* executeHandler fail as a whole; the handler returns a response that
\* holds an error outcome for that device and one outcome for every other.
C2_FailureIsolated ==
    /\ pc # "failed"
    /\ pc = "returned" =>
          \A d \in 1..N :
              outcomeCount(response, idOf(d), "ERROR")
                  + outcomeCount(response, idOf(d), "SUCCESS") = 1

\* C3: every callback has run up to its send before the handler waits, and
\* the handler completes (returns or fails) only when no send is pending.
C3_WaitsForAllSends ==
    /\ pc \in {"await", "returned", "failed"} =>
          \A d \in DOMAIN task : task[d] # "notRun"
    /\ handlerDone =>
          \A d \in DOMAIN sendPromise : sendPromise[d] # "pending"

\* C10: a device whose descriptor was built is sent to exactly once, with a
\* descriptor that carries its id, its port and the request's requestId;
\* no other send happens.
sendsTo(d) == {j \in 1..Len(sent) : sent[j].deviceId = idOf(d)}

C10_OneAddressedSend ==
    pc # "idle" =>
        /\ \A d \in 1..N :
              IF d < next /\ task[d] # "rejected"
              THEN /\ Cardinality(sendsTo(d)) = 1
                   /\ \A j \in sendsTo(d) :
                         /\ sent[j].requestId = request.requestId
                         /\ sent[j].port = request.devices[d].customData.port
              ELSE sendsTo(d) = {}
        /\ Len(sent) = Cardinality({d \in 1..N : d < next /\ task[d] # "rejected"})

C10_Witness ==
    /\ handlerDone
    /\ Len(sent) >= 2
    /\ rejectedSends # {}
    /\ \A d \in DOMAIN sendPromise : sendPromise[d] # "pending"

\* CRC-8 computed from the bit-by-bit shift register
RECURSIVE refShift(_, _, _)
refShift(x, poly, steps) ==
    IF steps = 0 THEN x
    ELSE refShift(IF x >= 128 THEN BitXor((x * 2) % 256, poly)
                  ELSE (x * 2) % 256,
                  poly, steps - 1)

\* the effect of one input byte on the CRC register, for polynomial 0x31
refByte31 == [x \in 0..255 |-> refShift(x, 49, 8)]

RECURSIVE refCrc8(_, _)
refCrc8(init, bytes) ==
    IF bytes = <<>> THEN init
    ELSE refCrc8(refByte31[BitXor(init, Head(bytes))], Tail(bytes))

C5_OnFrameEndsWith24 ==
    frames[TRUE] # <<>> =>
        frames[TRUE] = <<0, 0, 86, 116, 112, 0, 0, 0, 0, 1, 1, 36>>

C8_TableFromPolynomial ==
    (cpc = "idle" /\ caller = "direct") =>
        /\ DOMAIN this.table = 0..255
        /\ \A i \in 0..255 :
              /\ this.table[i] \in 0..255
              /\ this.table[i] = refShift(i, ctorArgs.polynomial, 8)

isHttpPost(result, args) ==
    /\ ~result.threw
    /\ result.value.method = "POST"
    /\ result.value.path = args.path
    /\ result.value.dataType = "application/octet-stream"
    /\ result.value.data = toHexString(encrypt(args.data, args.secret))

C9_TwoHexDigitsPerByte ==
    call.fn = "toHexString" =>
        LET data == call.args.data
            str == call.result
        IN /\ Len(str) = 2 * Len(data)
           /\ \A j \in 1..Len(data) :
                 /\ str[2 * j - 1] = HexDigit[(data[j] \div 16) + 1]
                 /\ str[2 * j] = HexDigit[(data[j] % 16) + 1]
           /\ data = ExampleBytes => str = <<"0", "0", "f", "f", "0", "7">>

C9_Witness ==
    /\ call.fn = "toHexString"
    /\ call.args.data = ExampleBytes
    /\ call.result = <<"0", "0", "f", "f", "0", "7">>

====
